---- MODULE Spec2Model ----
(***************************************************************************)
(* A model of the rust-fix crate: the FIX message builder/parser           *)
(* (src/src/fix_message_builder.rs) and its byte utilities                 *)
(* (src/src/utils.rs).  Bytes are the integers 0..255, byte strings are    *)
(* sequences of bytes.                                                     *)
(***************************************************************************)
EXTENDS Integers, Sequences, FiniteSets

VARIABLES
    builder,               \* the FixMessageBuilder value under construction
    calls,                 \* the (key, value) arguments of the with_value calls made so far
    op,                    \* the name of the last operation performed
    arg,                   \* the key argument of the last accessor call
    payload,               \* the byte buffer last produced by as_bytes / handed to a function
    check_sum_validation,  \* the flag handed to from_bytes
    outcome,               \* how the last call ended: "none", "Ok", an error name, "panic"
    decoded,               \* the message returned by from_bytes
    ret,                   \* the value returned by the last accessor / checksum call
    pos,                   \* split_fix_to_tags: number of bytes consumed by the scan
    key_buffer,            \* split_fix_to_tags: key_buffer
    value_buffer,          \* split_fix_to_tags: value_buffer
    is_equals_raised,      \* split_fix_to_tags: is_equals_raised
    result                 \* split_fix_to_tags: result (the HashMap)

vars == <<builder, calls, op, arg, payload, check_sum_validation, outcome, decoded,
          ret, pos, key_buffer, value_buffer, is_equals_raised, result>>

scanVars == <<pos, key_buffer, value_buffer, is_equals_raised, result>>

(***************************************************************************)
(* Bounds of the model.                                                    *)
(***************************************************************************)
MaxFields == 3
MaxPieces == 3
MaxScanLen == 5
MaxBodyLen == 3

(***************************************************************************)
(* utils.rs                                                                *)
(***************************************************************************)
FIX_EQUALS == 61
FIX_DELIMETR == 1

U8Modulus == 256

\* an addition that does not wrap at 256
plain_add(a, b) == a + b

\* u8::wrapping_add
wrapping_add(a, b) == (a + b) % U8Modulus

\* The iterations lo..hi of the loop of calculate_check_sum, entered with sum:
\* sum = sum.wrapping_add(*byte) for each byte, in order.  A range of more than one
\* iteration is its first half followed by its second half; the test on `first`
\* has the first half computed before the second half starts.
RECURSIVE check_sum_loop(_, _, _, _)
check_sum_loop(body, lo, hi, sum) ==
    IF lo > hi THEN sum
    ELSE IF lo = hi THEN wrapping_add(sum, body[lo])
    ELSE LET mid == (lo + hi) \div 2
             first == check_sum_loop(body, lo, mid, sum)
         IN  IF first >= 0 THEN check_sum_loop(body, mid + 1, hi, first) ELSE first

\* the decimal digits of a natural number, as ASCII bytes
RECURSIVE decimal_digits(_)
decimal_digits(n) ==
    IF n < 10 THEN <<48 + n>>
    ELSE decimal_digits(n \div 10) \o <<48 + (n % 10)>>

\* ToString of an integer (u8, usize, i32): a '-' before the digits of a negative one
to_string(n) == IF n < 0 THEN <<45>> \o decimal_digits(-n) ELSE decimal_digits(n)

\* format!("{:0>3}", s): s right-aligned in a width of 3, filled with '0'
format_0_right_3(s) ==
    IF Len(s) >= 3 THEN s
    ELSE [i \in 1..(3 - Len(s)) |-> 48] \o s

calculate_check_sum(body) ==
    format_0_right_3(to_string(check_sum_loop(body, 1, Len(body), 0)))

compile_fix_chunk(key, value) == key \o <<FIX_EQUALS>> \o value \o <<FIX_DELIMETR>>

\* HashMap::insert: the entry of key k is created or replaced
hash_map_insert(m, k, v) ==
    [x \in (DOMAIN m) \cup {k} |-> IF x = k THEN v ELSE m[x]]

EmptyMap == [x \in {} |-> <<>>]

\* a loop body that forgets to lower is_equals_raised at the terminator
split_step_keeping_flag(st, byte) ==
    IF byte = FIX_DELIMETR
    THEN [result           |-> hash_map_insert(st.result, st.key_buffer, st.value_buffer),
          key_buffer       |-> <<>>,
          value_buffer     |-> <<>>,
          is_equals_raised |-> st.is_equals_raised]
    ELSE IF byte = FIX_EQUALS
    THEN [st EXCEPT !.is_equals_raised = TRUE]
    ELSE IF st.is_equals_raised
    THEN [st EXCEPT !.value_buffer = Append(@, byte)]
    ELSE [st EXCEPT !.key_buffer = Append(@, byte)]

\* one iteration of the loop of split_fix_to_tags over the scan state st
split_step(st, byte) ==
    IF byte = FIX_DELIMETR
    THEN [result           |-> hash_map_insert(st.result, st.key_buffer, st.value_buffer),
          key_buffer       |-> <<>>,
          value_buffer     |-> <<>>,
          is_equals_raised |-> FALSE]
    ELSE IF byte = FIX_EQUALS
    THEN [st EXCEPT !.is_equals_raised = TRUE]
    ELSE IF st.is_equals_raised
    THEN [st EXCEPT !.value_buffer = Append(@, byte)]
    ELSE [st EXCEPT !.key_buffer = Append(@, byte)]

split_start ==
    [result |-> EmptyMap, key_buffer |-> <<>>, value_buffer |-> <<>>,
     is_equals_raised |-> FALSE]

\* The iterations lo..hi of the loop of split_fix_to_tags, entered in scan state st:
\* split_step for each byte, in order, the first half of a range computed before
\* its second half starts.
RECURSIVE split_loop(_, _, _, _)
split_loop(fix, lo, hi, st) ==
    IF lo > hi THEN st
    ELSE IF lo = hi THEN split_step(st, fix[lo])
    ELSE LET mid == (lo + hi) \div 2
             first == split_loop(fix, lo, mid, st)
         IN  IF first.is_equals_raised \in BOOLEAN
             THEN split_loop(fix, mid + 1, hi, first)
             ELSE first

split_fix_to_tags(fix) == split_loop(fix, 1, Len(fix), split_start).result

(***************************************************************************)
(* String::from_utf8(bytes).is_ok(): the UTF-8 validation of std.          *)
(***************************************************************************)
\* The validation walks the bytes once.  Its state: ok (no invalid byte so far),
\* need (continuation bytes the current character still lacks) and lo..hi (the
\* range the next continuation byte must be in).
utf8_start == [ok |-> TRUE, need |-> 0, lo |-> 128, hi |-> 191]

utf8_lead(need, lo, hi) == [ok |-> TRUE, need |-> need, lo |-> lo, hi |-> hi]

utf8_step(st, b) ==
    IF ~st.ok THEN st
    ELSE IF st.need > 0
    THEN IF b >= st.lo /\ b <= st.hi
         THEN utf8_lead(st.need - 1, 128, 191)
         ELSE [st EXCEPT !.ok = FALSE]
    ELSE IF b < 128 THEN utf8_start
    ELSE IF b >= 194 /\ b <= 223 THEN utf8_lead(1, 128, 191)
    ELSE IF b = 224 THEN utf8_lead(2, 160, 191)
    ELSE IF b = 237 THEN utf8_lead(2, 128, 159)
    ELSE IF b >= 225 /\ b <= 239 THEN utf8_lead(2, 128, 191)
    ELSE IF b = 240 THEN utf8_lead(3, 144, 191)
    ELSE IF b = 244 THEN utf8_lead(3, 128, 143)
    ELSE IF b >= 241 /\ b <= 243 THEN utf8_lead(3, 128, 191)
    ELSE [st EXCEPT !.ok = FALSE]

\* utf8_step for the bytes lo..hi of s, in order, the first half of a range computed
\* before its second half starts
RECURSIVE utf8_loop(_, _, _, _)
utf8_loop(s, lo, hi, st) ==
    IF lo > hi THEN st
    ELSE IF lo = hi THEN utf8_step(st, s[lo])
    ELSE LET mid == (lo + hi) \div 2
             first == utf8_loop(s, lo, mid, st)
         IN  IF first.ok \in BOOLEAN THEN utf8_loop(s, mid + 1, hi, first) ELSE first

\* valid when no byte was invalid and the last character is complete
is_utf8(s) ==
    LET end == utf8_loop(s, 1, Len(s), utf8_start)
    IN  end.ok /\ end.need = 0

(***************************************************************************)
(* fix_message_builder.rs                                                  *)
(***************************************************************************)
FIX_VERSION == <<56>>
FIX_BODY_LEN == <<57>>
FIX_CHECK_SUM == <<49, 48>>
FIX_MESSAGE_TYPE == <<51, 53>>

new(version, message_type) ==
    [fix_version |-> version, message_type |-> message_type, data |-> <<>>]

with_value_as_bytes(m, key, value) == [m EXCEPT !.data = Append(@, <<key, value>>)]

\* a with_value that keeps one entry per key, replacing the value of a key already there
with_value_replacing(m, key, value) ==
    IF \E i \in 1..Len(m.data) : m.data[i][1] = to_string(key)
    THEN [m EXCEPT !.data = [i \in 1..Len(m.data) |->
                                IF m.data[i][1] = to_string(key)
                                THEN <<to_string(key), value>> ELSE m.data[i]]]
    ELSE [m EXCEPT !.data = Append(@, <<to_string(key), value>>)]

with_value(m, key, value) == [m EXCEPT !.data = Append(@, <<to_string(key), value>>)]

RECURSIVE compile_body_loop(_, _, _)
compile_body_loop(data, i, body) ==
    IF i > Len(data) THEN body
    ELSE compile_body_loop(data, i + 1,
                           body \o compile_fix_chunk(data[i][1], data[i][2]))

compile_body(m) ==
    LET body == compile_body_loop(m.data, 1,
                                  compile_fix_chunk(FIX_MESSAGE_TYPE, m.message_type))
    IN  [len |-> Len(body), body |-> body]

\* everything compile_message emits before the checksum chunk
compile_head(m) ==
    LET b == compile_body(m)
    IN  compile_fix_chunk(FIX_VERSION, m.fix_version)
          \o compile_fix_chunk(FIX_BODY_LEN, to_string(b.len))
          \o b.body

\* a compile_message whose checksum covers the body only
compile_message_sum_of_body(m) ==
    compile_head(m) \o compile_fix_chunk(FIX_CHECK_SUM, calculate_check_sum(compile_body(m).body))

compile_message(m) ==
    LET res == compile_head(m)
    IN  res \o compile_fix_chunk(FIX_CHECK_SUM, calculate_check_sum(res))

\* a checksum of the message that leaves the body-length chunk out
builder_check_sum_without_body_len(m) ==
    calculate_check_sum(compile_fix_chunk(FIX_VERSION, m.fix_version) \o compile_body(m).body)

\* FixMessageBuilder::calculate_check_sum(&self)
builder_calculate_check_sum(m) ==
    LET b == compile_body(m)
        res == compile_fix_chunk(FIX_VERSION, m.fix_version)
                 \o compile_fix_chunk(FIX_BODY_LEN, to_string(b.len))
                 \o b.body
    IN  calculate_check_sum(res)

as_bytes(m) == compile_message(m)

\* Option<&Vec<u8>> as a sequence of at most one value
RECURSIVE get_value_loop(_, _, _)
get_value_loop(data, i, key) ==
    IF i > Len(data) THEN <<>>
    ELSE IF data[i][1] = key THEN <<data[i][2]>>
    ELSE get_value_loop(data, i + 1, key)

get_value(m, key) == get_value_loop(m.data, 1, key)

RECURSIVE get_values_loop(_, _, _, _)
get_values_loop(data, i, key, res) ==
    IF i > Len(data) THEN res
    ELSE get_values_loop(data, i + 1, key,
                         IF data[i][1] = key THEN Append(res, data[i][2]) ELSE res)

get_values(m, key) == get_values_loop(m.data, 1, key, <<>>)

get_message_type(m) == m.message_type

Panic == [outcome |-> "panic", val |-> <<>>]

\* get_value_as_string / get_value_string: String::from_utf8(value).unwrap() on the
\* first match
get_value_as_string(m, key) ==
    LET v == get_value(m, key)
    IN  IF v = <<>> THEN [outcome |-> "Ok", val |-> <<>>]
        ELSE IF is_utf8(v[1]) THEN [outcome |-> "Ok", val |-> v]
        ELSE Panic

\* get_values_as_string / get_values_string: unwrap() on every match, in order
get_values_as_string(m, key) ==
    LET vs == get_values(m, key)
    IN  IF \A i \in 1..Len(vs) : is_utf8(vs[i]) THEN [outcome |-> "Ok", val |-> vs]
        ELSE Panic

get_value_string(m, key) == get_value_as_string(m, key)

get_values_string(m, key) == get_values_as_string(m, key)

\* The entry from_bytes reads for a tag is the list of the tag's values; the map of
\* split_fix_to_tags holds one value per key (insert replaces), so the list has
\* exactly that one element.
values_of(tags, tag) == <<tags[tag]>>

to_skip == {FIX_BODY_LEN, FIX_VERSION, FIX_CHECK_SUM}

\* the iteration orders a HashMap may present its keys in
RECURSIVE Orders(_)
Orders(S) ==
    IF S = {} THEN {<<>>}
    ELSE UNION {{<<x>> \o p : p \in Orders(S \ {x})} : x \in S}

\* The keys whose entries the copy loop of from_bytes pushes; the skipped ones only
\* `continue`, so the orders of these keys give every outcome of the loop.
copied_keys(tags) == (DOMAIN tags) \ to_skip

RECURSIVE copy_tags(_, _, _, _)
copy_tags(tags, order, i, m) ==
    IF i > Len(order) THEN m
    ELSE copy_tags(tags, order, i + 1,
                   IF order[i] \in to_skip THEN m
                   ELSE with_value_as_bytes(m, order[i], values_of(tags, order[i])[1]))

NoMessage == new(<<>>, <<>>)

Err(e) == [outcome |-> e, message |-> NoMessage]

\* from_bytes after its first line, tags being split_fix_to_tags(bytes)
from_tags(tags, bytes, validation, order) ==
        IF FIX_VERSION \notin DOMAIN tags
        THEN IF is_utf8(bytes) THEN Err("VersionTagNotFoundInSource") ELSE Err("panic")
        ELSE IF FIX_MESSAGE_TYPE \notin DOMAIN tags
        THEN Err("MessageTypeTagNotFoundInSource")
        ELSE IF validation /\ FIX_CHECK_SUM \notin DOMAIN tags
        THEN Err("CheckSumTagNotFoundInSource")
        ELSE LET res == copy_tags(tags, order, 1,
                                  new(values_of(tags, FIX_VERSION)[1],
                                      values_of(tags, FIX_MESSAGE_TYPE)[1]))
             IN  IF validation
                    /\ values_of(tags, FIX_CHECK_SUM)[1] # builder_calculate_check_sum(res)
                 THEN Err("InvalidCheckSum")
                 ELSE [outcome |-> "Ok", message |-> res]

from_bytes(bytes, validation, order) ==
    from_tags(split_fix_to_tags(bytes), bytes, validation, order)

(***************************************************************************)
(* Inputs.                                                                 *)
(***************************************************************************)
\* "FIX.4.4"
Versions == {<<70, 73, 88, 46, 52, 46, 52>>}
\* "A", "D"
MessageTypes == {<<65>>, <<68>>}
\* keys handed to with_value (i32)
Keys == {8, 49, 56}
\* "B1", "B2"
Values == {<<66, 49>>, <<66, 50>>}
\* keys handed to the accessors
TagBytes == {to_string(k) : k \in Keys} \cup {FIX_MESSAGE_TYPE}

\* Terminated fields a peer may put on the wire: 8=FIX.4.4, 35=A, 9=5, 49=B1, 49=B2,
\* 56=<0xFF> (a value that is not UTF-8), 10=188
Pieces ==
    { compile_fix_chunk(FIX_VERSION, <<70, 73, 88, 46, 52, 46, 52>>),
      compile_fix_chunk(FIX_MESSAGE_TYPE, <<65>>),
      compile_fix_chunk(FIX_BODY_LEN, <<53>>),
      compile_fix_chunk(<<52, 57>>, <<66, 49>>),
      compile_fix_chunk(<<52, 57>>, <<66, 50>>),
      compile_fix_chunk(<<53, 54>>, <<255>>),
      compile_fix_chunk(FIX_CHECK_SUM, <<49, 56, 56>>) }

\* how a framed buffer begins: the version field, then the message type field
FramedHeads ==
    { compile_fix_chunk(FIX_VERSION, <<70, 73, 88, 46, 52, 46, 52>>)
        \o compile_fix_chunk(FIX_MESSAGE_TYPE, <<65>>) }

U8 == 0..(U8Modulus - 1)

\* bytes of the buffers the scan is run on: terminator, '=', '8', 'A'
ScanBytes == {FIX_DELIMETR, FIX_EQUALS, 56, 65}
\* bytes of the buffers the checksum is run on
SumBytes == {0, 1, 61, 128, 255}

BoundedSeq(S, n) == UNION {[1..k -> S] : k \in 0..n}

DelimiterCount(s) == Cardinality({i \in 1..Len(s) : s[i] = FIX_DELIMETR})

BufferOps == {"receive", "feed", "feed_check_sum", "as_bytes"}

Alive == outcome # "panic"

(***************************************************************************)
(* The builder's life: new, then with_value / as_bytes / accessors, and    *)
(* from_bytes on the bytes as_bytes returned.                              *)
(***************************************************************************)
Init ==
    /\ \E version \in Versions, message_type \in MessageTypes :
           builder = new(version, message_type)
    /\ calls = <<>>
    /\ op = "new"
    /\ arg = <<>>
    /\ payload = <<>>
    /\ check_sum_validation = FALSE
    /\ outcome = "Ok"
    /\ decoded = NoMessage
    /\ ret = <<>>
    /\ pos = 0
    /\ key_buffer = <<>>
    /\ value_buffer = <<>>
    /\ is_equals_raised = FALSE
    /\ result = EmptyMap

WithValue(key, value) ==
    /\ Alive
    /\ Len(builder.data) < MaxFields
    /\ builder' = with_value(builder, key, value)
    /\ calls' = Append(calls, <<key, value>>)
    /\ op' = "with_value"
    /\ arg' = <<>>
    /\ payload' = <<>>
    /\ check_sum_validation' = FALSE
    /\ outcome' = "Ok"
    /\ decoded' = NoMessage
    /\ ret' = <<>>
    /\ UNCHANGED scanVars

AsBytes ==
    /\ Alive
    /\ payload' = as_bytes(builder)
    /\ op' = "as_bytes"
    /\ arg' = <<>>
    /\ check_sum_validation' = FALSE
    /\ outcome' = "Ok"
    /\ decoded' = NoMessage
    /\ ret' = <<>>
    /\ UNCHANGED <<builder, calls>>
    /\ UNCHANGED scanVars

FromBytes(validation) ==
    /\ Alive
    /\ op \in BufferOps
    /\ LET tags == split_fix_to_tags(payload)
       IN  \E order \in Orders(copied_keys(tags)) :
             LET r == from_tags(tags, payload, validation, order)
             IN  /\ outcome' = r.outcome
                 /\ decoded' = r.message
    /\ op' = "from_bytes"
    /\ arg' = <<>>
    /\ check_sum_validation' = validation
    /\ ret' = <<>>
    /\ UNCHANGED <<builder, calls, payload>>
    /\ UNCHANGED scanVars

\* an accessor call returning r
Access(name, key, r) ==
    /\ Alive
    /\ op' = name
    /\ arg' = key
    /\ outcome' = r.outcome
    /\ ret' = r.val
    /\ payload' = <<>>
    /\ check_sum_validation' = FALSE
    /\ UNCHANGED <<builder, calls, decoded>>
    /\ UNCHANGED scanVars

Returned(v) == [outcome |-> "Ok", val |-> v]

GetValue(m, key) == Access("get_value", key, Returned(get_value(m, key)))

GetValues(m, key) == Access("get_values", key, Returned(get_values(m, key)))

GetMessageType(m) == Access("get_message_type", <<>>, Returned(get_message_type(m)))

GetValueAsString(m, key) == Access("get_value_as_string", key, get_value_as_string(m, key))

GetValuesAsString(m, key) == Access("get_values_as_string", key, get_values_as_string(m, key))

GetValueString(m, key) == Access("get_value_string", key, get_value_string(m, key))

GetValuesString(m, key) == Access("get_values_string", key, get_values_string(m, key))

Inspect(m) ==
    \/ \E key \in TagBytes : GetValue(m, key)
    \/ \E key \in TagBytes : GetValues(m, key)
    \/ GetMessageType(m)
    \/ \E key \in TagBytes : GetValueAsString(m, key)
    \/ \E key \in TagBytes : GetValuesAsString(m, key)
    \/ \E key \in TagBytes : GetValueString(m, key)
    \/ \E key \in TagBytes : GetValuesString(m, key)

Next ==
    \/ \E key \in Keys, value \in Values : WithValue(key, value)
    \/ AsBytes
    \/ \E validation \in BOOLEAN : FromBytes(validation)
    \/ (decoded = NoMessage /\ Inspect(builder))

Spec == Init /\ [][Next]_vars

(***************************************************************************)
(* Decoding buffers received from a peer: the buffer is a run of           *)
(* terminated fields, from_bytes parses it, the accessors read the result. *)
(***************************************************************************)
InitDecode ==
    /\ builder = NoMessage
    /\ calls = <<>>
    /\ op = "receive"
    /\ arg = <<>>
    /\ payload = <<>>
    /\ check_sum_validation = FALSE
    /\ outcome = "Ok"
    /\ decoded = NoMessage
    /\ ret = <<>>
    /\ pos = 0
    /\ key_buffer = <<>>
    /\ value_buffer = <<>>
    /\ is_equals_raised = FALSE
    /\ result = EmptyMap

Feed(piece) ==
    /\ op \in {"receive", "feed"}
    /\ DelimiterCount(payload) < MaxPieces
    /\ payload' = payload \o piece
    /\ op' = "feed"
    /\ UNCHANGED <<builder, calls, arg, check_sum_validation, outcome, decoded, ret>>
    /\ UNCHANGED scanVars

\* the peer closes the buffer with a checksum field of three digits
FeedCheckSum(c) ==
    /\ payload' = payload \o compile_fix_chunk(FIX_CHECK_SUM, format_0_right_3(to_string(c)))
    /\ op' = "feed_check_sum"
    /\ UNCHANGED <<builder, calls, arg, check_sum_validation, outcome, decoded, ret>>
    /\ UNCHANGED scanVars

NextDecode ==
    \/ \E piece \in Pieces : Feed(piece)
    \/ \E validation \in BOOLEAN : FromBytes(validation)
    \/ (decoded # NoMessage /\ Inspect(decoded))

SpecDecode == InitDecode /\ [][NextDecode]_vars

(***************************************************************************)
(* Decoding framed buffers: a buffer that begins with the version and the  *)
(* message type is closed with a checksum field, whose value may be any    *)
(* byte's three digits.                                                    *)
(***************************************************************************)
NextValidate ==
    \/ \E piece \in Pieces : Feed(piece)
    \/ /\ op \in {"receive", "feed"}
       /\ \E head \in FramedHeads :
             /\ Len(payload) >= Len(head)
             /\ SubSeq(payload, 1, Len(head)) = head
       /\ \E c \in U8 : FeedCheckSum(c)
    \/ \E validation \in BOOLEAN : FromBytes(validation)

SpecValidate == InitDecode /\ [][NextValidate]_vars

(***************************************************************************)
(* split_fix_to_tags, one byte of the scan per step.                       *)
(***************************************************************************)
InitSplit ==
    /\ builder = NoMessage
    /\ calls = <<>>
    /\ op = "split_fix_to_tags"
    /\ arg = <<>>
    /\ payload \in BoundedSeq(ScanBytes, MaxScanLen)
    /\ check_sum_validation = FALSE
    /\ outcome = "Ok"
    /\ decoded = NoMessage
    /\ ret = <<>>
    /\ pos = 0
    /\ key_buffer = split_start.key_buffer
    /\ value_buffer = split_start.value_buffer
    /\ is_equals_raised = split_start.is_equals_raised
    /\ result = split_start.result

ScanStep ==
    /\ pos < Len(payload)
    /\ LET st == split_step([result |-> result, key_buffer |-> key_buffer,
                             value_buffer |-> value_buffer,
                             is_equals_raised |-> is_equals_raised],
                            payload[pos + 1])
       IN  /\ result' = st.result
           /\ key_buffer' = st.key_buffer
           /\ value_buffer' = st.value_buffer
           /\ is_equals_raised' = st.is_equals_raised
    /\ pos' = pos + 1
    /\ UNCHANGED <<builder, calls, op, arg, payload, check_sum_validation, outcome,
                   decoded, ret>>

NextSplit == ScanStep

SpecSplit == InitSplit /\ [][NextSplit]_vars

(***************************************************************************)
(* calculate_check_sum on a byte buffer.                                   *)
(***************************************************************************)
InitCheckSum ==
    /\ builder = NoMessage
    /\ calls = <<>>
    /\ op = "receive"
    /\ arg = <<>>
    /\ payload \in BoundedSeq(SumBytes, MaxBodyLen)
    /\ check_sum_validation = FALSE
    /\ outcome = "Ok"
    /\ decoded = NoMessage
    /\ ret = <<>>
    /\ pos = 0
    /\ key_buffer = <<>>
    /\ value_buffer = <<>>
    /\ is_equals_raised = FALSE
    /\ result = EmptyMap

CalculateCheckSum ==
    /\ op = "receive"
    /\ ret' = calculate_check_sum(payload)
    /\ op' = "calculate_check_sum"
    /\ UNCHANGED <<builder, calls, arg, payload, check_sum_validation, outcome, decoded>>
    /\ UNCHANGED scanVars

NextCheckSum == CalculateCheckSum

SpecCheckSum == InitCheckSum /\ [][NextCheckSum]_vars

(***************************************************************************)
(* Notions the properties are stated in.  They read the bytes on their     *)
(* own, not through the operators above.                                   *)
(***************************************************************************)
IsDigits(s) == \A i \in 1..Len(s) : s[i] >= 48 /\ s[i] <= 57

\* the number a string of decimal digits denotes
RECURSIVE DecimalValue(_)
DecimalValue(s) ==
    IF s = <<>> THEN 0
    ELSE 10 * DecimalValue(SubSeq(s, 1, Len(s) - 1)) + (s[Len(s)] - 48)

\* the sum of the bytes, as a natural number
RECURSIVE RangeSum(_, _, _)
RangeSum(s, lo, hi) ==
    IF lo > hi THEN 0
    ELSE IF lo = hi THEN s[lo]
    ELSE RangeSum(s, lo, (lo + hi) \div 2) + RangeSum(s, (lo + hi) \div 2 + 1, hi)

PlainSum(s) == RangeSum(s, 1, Len(s))

SetMin(S) == CHOOSE i \in S : \A j \in S : i <= j
SetMax(S) == CHOOSE i \in S : \A j \in S : i >= j

Terminators(s) == {i \in 1..Len(s) : s[i] = FIX_DELIMETR}
Separators(s) == {i \in 1..Len(s) : s[i] = FIX_EQUALS}
NotSeparator(b) == b # FIX_EQUALS

\* the (key, value) of one field's bytes: the key ends at the first '=', the value
\* is what follows, its further '=' bytes not kept
FieldOf(seg) ==
    IF Separators(seg) = {} THEN <<seg, <<>>>>
    ELSE LET e == SetMin(Separators(seg))
         IN  <<SubSeq(seg, 1, e - 1),
               SelectSeq(SubSeq(seg, e + 1, Len(seg)), NotSeparator)>>

\* the terminated fields of a buffer, in wire order
RECURSIVE WireFields(_)
WireFields(fix) ==
    IF Terminators(fix) = {} THEN <<>>
    ELSE LET d == SetMin(Terminators(fix))
         IN  <<FieldOf(SubSeq(fix, 1, d - 1))>>
               \o WireFields(SubSeq(fix, d + 1, Len(fix)))

\* the bytes after the last terminator
UnterminatedTail(fix) ==
    IF Terminators(fix) = {} THEN fix
    ELSE SubSeq(fix, SetMax(Terminators(fix)) + 1, Len(fix))

WireTags(fix) == {WireFields(fix)[i][1] : i \in 1..Len(WireFields(fix))}

\* the values a tag has among a sequence of (tag, value) pairs, in order
ValuesFor(fields, tag) ==
    LET idx == {i \in 1..Len(fields) : fields[i][1] = tag}
        RECURSIVE Pick(_)
        Pick(S) == IF S = {} THEN <<>>
                   ELSE <<fields[SetMin(S)][2]>> \o Pick(S \ {SetMin(S)})
    IN  Pick(idx)

\* the map that keeps, for each key of the fields, the value of its last field
LastWins(fields) ==
    [k \in {fields[i][1] : i \in 1..Len(fields)} |->
        fields[SetMax({i \in 1..Len(fields) : fields[i][1] = k})][2]]

\* how many times value v is stored for tag in message m
Count(m, tag, v) ==
    Cardinality({i \in 1..Len(m.data) : m.data[i] = <<tag, v>>})

\* the first element of a sequence, if any
Earliest(s) == IF s = <<>> THEN <<>> ELSE <<s[1]>>

TagsOf(m) == {m.data[i][1] : i \in 1..Len(m.data)}

TextAccessors ==
    {"get_value_as_string", "get_values_as_string", "get_value_string",
     "get_values_string"}

(***************************************************************************)
(* Properties.                                                             *)
(***************************************************************************)

\* C9: calculate_check_sum returns exactly three ASCII decimal digits, the
\* zero-padded decimal rendering of (sum of all input bytes) mod 256, for every
\* byte sequence, the empty one included.
CheckSumIsThreeDigitsOfWrappedSum ==
    op = "calculate_check_sum" =>
        /\ Len(ret) = 3
        /\ IsDigits(ret)
        /\ DecimalValue(ret) = PlainSum(payload) % U8Modulus

\* a buffer whose sum passes 255 and whose checksum needs padding
CheckSumWrappedAndPadded ==
    /\ op = "calculate_check_sum"
    /\ PlainSum(payload) >= U8Modulus
    /\ ret[1] = 48

\* C10: at every point of the scan the map holds exactly the fields closed by a
\* terminator so far (one entry per key), the buffers and the flag hold the field
\* begun after the last terminator (empty and lowered right after a terminator),
\* bytes after the last terminator add no entry, and the scan can always go on to
\* the end of the buffer.
ScanRecordsTerminatedFields ==
    op = "split_fix_to_tags" =>
        LET prefix == SubSeq(payload, 1, pos)
            open == UnterminatedTail(prefix)
        IN  /\ result = LastWins(WireFields(prefix))
            /\ DOMAIN result = WireTags(prefix)
            /\ key_buffer = FieldOf(open)[1]
            /\ value_buffer = FieldOf(open)[2]
            /\ is_equals_raised = (Separators(open) # {})
            /\ (pos > 0 /\ payload[pos] = FIX_DELIMETR) =>
                   /\ key_buffer = <<>>
                   /\ value_buffer = <<>>
                   /\ ~is_equals_raised
                   /\ Cardinality(Terminators(prefix)) = Len(WireFields(prefix))
            /\ pos < Len(payload) => ENABLED ScanStep

\* a finished scan of a buffer that ends in an unterminated field after a
\* terminated one, and after a field that raised the flag
ScanEndedWithOpenField ==
    /\ op = "split_fix_to_tags"
    /\ pos = Len(payload)
    /\ DOMAIN result # {}
    /\ key_buffer # <<>>
    /\ \E i \in Terminators(payload) : i > 1 /\ payload[i - 1] = FIX_EQUALS

\* C2: as_bytes returns chunk(8, version) ++ chunk(9, L) ++ body ++ chunk(10, C),
\* body being chunk(35, message type) followed by the chunk of each stored field in
\* order, L the unpadded decimal length of body and C the checksum of all the bytes
\* before the checksum chunk.
EncodeLayout ==
    op = "as_bytes" =>
        LET RECURSIVE Flat(_)
            Flat(fs) == IF fs = <<>> THEN <<>>
                        ELSE fs[1][1] \o <<61>> \o fs[1][2] \o <<1>> \o Flat(Tail(fs))
            body == Flat(<<<<(<<51, 53>>), builder.message_type>>>> \o builder.data)
            head == Flat(<<<<(<<56>>), builder.fix_version>>>>)
            n == Len(payload)
            lenFrom == Len(head) + 3
            lenTo == n - 7 - Len(body) - 1
            L == SubSeq(payload, lenFrom, lenTo)
            C == SubSeq(payload, n - 3, n - 1)
        IN  /\ lenFrom <= lenTo
            /\ payload = head \o <<57, 61>> \o L \o <<1>> \o body \o <<49, 48, 61>> \o C \o <<1>>
            /\ IsDigits(L)
            /\ DecimalValue(L) = Len(body)
            /\ L[1] # 48
            /\ Len(C) = 3
            /\ IsDigits(C)
            /\ DecimalValue(C) = PlainSum(SubSeq(payload, 1, n - 7)) % U8Modulus

\* an encoded message with a repeated tag and a body of two-digit length
EncodedWithFields ==
    /\ op = "as_bytes"
    /\ Len(builder.data) >= 2
    /\ builder.data[1][1] = builder.data[2][1]
    /\ Len(payload) > 30

\* C5: the stored field list is the sequence of with_value arguments in call order,
\* repeated tags included; get_values returns every value added for a tag in call
\* order, get_value the earliest one, and as_bytes emits the fields in that order.
FieldsAreTheCallsInOrder ==
    LET added(tag) == ValuesFor(calls, DecimalValue(tag))
    IN  /\ Len(builder.data) = Len(calls)
        /\ \A i \in 1..Len(calls) :
              /\ IsDigits(builder.data[i][1])
              /\ DecimalValue(builder.data[i][1]) = calls[i][1]
              /\ builder.data[i][2] = calls[i][2]
        /\ \A tag \in TagBytes :
              /\ get_values(builder, tag) = added(tag)
              /\ get_value(builder, tag) = Earliest(added(tag))
        /\ op = "get_values" => ret = added(arg)
        /\ op = "get_value" => ret = Earliest(added(arg))
        /\ op = "as_bytes" =>
              /\ Len(WireFields(payload)) = Len(calls) + 4
              /\ \A i \in 1..Len(calls) :
                    /\ DecimalValue(WireFields(payload)[3 + i][1]) = calls[i][1]
                    /\ WireFields(payload)[3 + i][2] = calls[i][2]

\* get_values returned two different values of one tag
TwoValuesOfOneTag ==
    /\ op = "get_values"
    /\ Len(ret) = 2
    /\ ret[1] # ret[2]
    /\ Len(calls) = 3

\* C4: for a buffer holding tags 8, 35 and 10, from_bytes with validation fails
\* with InvalidCheckSum exactly when the tag-10 value differs from the checksum the
\* decoded message would be encoded with, and succeeds otherwise; without validation
\* a buffer holding tags 8 and 35 decodes whatever its tag 10 is, or without one.
CheckSumEnforced ==
    op = "from_bytes" =>
        LET tags == split_fix_to_tags(payload)
            wireTags == WireTags(payload)
            ofMessage(m) == LET w == as_bytes(m) IN SubSeq(w, Len(w) - 3, Len(w) - 1)
            candidates ==
                {copy_tags(tags, o, 1, new(tags[FIX_VERSION], tags[FIX_MESSAGE_TYPE])) :
                    o \in Orders(copied_keys(tags))}
        IN  /\ ({FIX_VERSION, FIX_MESSAGE_TYPE, FIX_CHECK_SUM} \subseteq wireTags
                  /\ check_sum_validation) =>
                  /\ outcome \in {"Ok", "InvalidCheckSum"}
                  /\ outcome = "InvalidCheckSum" <=>
                        \A m \in candidates : tags[FIX_CHECK_SUM] # ofMessage(m)
                  /\ outcome = "Ok" =>
                        /\ decoded \in candidates
                        /\ tags[FIX_CHECK_SUM] = ofMessage(decoded)
            /\ ({FIX_VERSION, FIX_MESSAGE_TYPE} \subseteq wireTags
                  /\ ~check_sum_validation) =>
                  /\ outcome = "Ok"
                  /\ decoded \in candidates

\* a buffer with version, message type and checksum that passed the validation
ValidatedDecode ==
    /\ op = "from_bytes"
    /\ check_sum_validation
    /\ outcome = "Ok"
    /\ FIX_CHECK_SUM \in WireTags(payload)

\* C1: from_bytes(as_bytes(m), true) succeeds for every built message m and returns
\* a message with m's version, m's message type and, for every tag, m's multiset of
\* values.
RoundTripPreservesMessage ==
    (op = "from_bytes" /\ check_sum_validation /\ payload = as_bytes(builder)) =>
        /\ outcome = "Ok"
        /\ decoded.fix_version = builder.fix_version
        /\ decoded.message_type = builder.message_type
        /\ \A tag \in TagsOf(builder) \cup TagsOf(decoded) :
              \A v \in {f[2] : f \in {builder.data[i] : i \in 1..Len(builder.data)}
                                       \cup {decoded.data[i] : i \in 1..Len(decoded.data)}} :
                  Count(decoded, tag, v) = Count(builder, tag, v)

\* C3: from_bytes returns a typed error for every buffer, checking in this order: no
\* tag 8 gives VersionTagNotFoundInSource whatever else holds; else no tag 35 gives
\* MessageTypeTagNotFoundInSource; else validation without tag 10 gives
\* CheckSumTagNotFoundInSource.
MissingTagsDetectedInOrder ==
    op = "from_bytes" =>
        IF FIX_VERSION \notin WireTags(payload)
        THEN outcome = "VersionTagNotFoundInSource"
        ELSE IF FIX_MESSAGE_TYPE \notin WireTags(payload)
        THEN outcome = "MessageTypeTagNotFoundInSource"
        ELSE IF check_sum_validation /\ FIX_CHECK_SUM \notin WireTags(payload)
        THEN outcome = "CheckSumTagNotFoundInSource"
        ELSE outcome \in {"Ok", "InvalidCheckSum"}

\* C6: no message, built or decoded, stores a field of tag 8, 9 or 10, and each of
\* these tags occurs exactly once in what as_bytes returns.
HeaderTagsNeverStored ==
    LET header == {FIX_VERSION, FIX_BODY_LEN, FIX_CHECK_SUM}
        wire == WireFields(payload)
    IN  /\ TagsOf(builder) \cap header = {}
        /\ TagsOf(decoded) \cap header = {}
        /\ op = "as_bytes" =>
              \A t \in header : Cardinality({i \in 1..Len(wire) : wire[i][1] = t}) = 1

\* C7: the splitter gives, for every tag of a terminated field, all the values the
\* buffer holds for it, in wire order, and from_bytes copies them into the message
\* in that order.
EveryValueOfATagIsKept ==
    LET tags == split_fix_to_tags(payload)
        wire == WireFields(payload)
    IN  /\ \A tag \in WireTags(payload) :
              /\ tag \in DOMAIN tags
              /\ values_of(tags, tag) = ValuesFor(wire, tag)
        /\ (op = "from_bytes" /\ outcome = "Ok") =>
              \A tag \in WireTags(payload) \ to_skip :
                  get_values(decoded, tag) = ValuesFor(wire, tag)

\* C8: a text accessor that meets a matching value that is not UTF-8 returns an
\* InvalidEncoding error and does not abort.
TextAccessorsReportInvalidEncoding ==
    LET matched == IF op \in {"get_value_as_string", "get_value_string"}
                   THEN get_value(decoded, arg)
                   ELSE get_values(decoded, arg)
    IN  (op \in TextAccessors /\ \E i \in 1..Len(matched) : ~is_utf8(matched[i])) =>
            outcome = "InvalidEncoding"

====
